---- MODULE Spec2Model ----
(***************************************************************************)
(* Model of TexConvert.py: the channel packer convert_to_png, the worker   *)
(* thread ConvertWorker.run that drives the external converter, and the    *)
(* handlers of TextureExporterUI that talk to the worker (_cancel,         *)
(* _on_done).                                                              *)
(*                                                                         *)
(* Text is modelled as a sequence of chunks (short strings); a path is a   *)
(* sequence of chunks in which "/" is the separator.  A byte of the        *)
(* converter's standard error is a chunk as well.                          *)
(***************************************************************************)
EXTENDS Integers, Sequences, FiniteSets, TLC

\* ------------------------------------------------------------------ text
RECURSIVE MapSeq(_, _)
\* the sequence s with every chunk c replaced by the chunk table[c] (or kept)
MapSeq(s, table) ==
    IF s = <<>> THEN <<>>
    ELSE <<IF Head(s) \in DOMAIN table THEN table[Head(s)] ELSE Head(s)>>
         \o MapSeq(Tail(s), table)

\* s contains sub as a contiguous run of chunks (Python's "sub in s")
Contains(s, sub) ==
    \E i \in 0..(Len(s) - Len(sub)) :
        \A j \in 1..Len(sub) : s[i + j] = sub[j]

LowerTable ==
    [c \in {"PAAConverter.exe", "ImageToPAA.exe", "Other.EXE", "_OGL", "Metal"} |->
        CASE c = "PAAConverter.exe" -> "paaconverter.exe"
          [] c = "ImageToPAA.exe"   -> "imagetopaa.exe"
          [] c = "Other.EXE"        -> "other.exe"
          [] c = "_OGL"             -> "_ogl"
          [] c = "Metal"            -> "metal"]

\* str.lower()
Lower(s) == MapSeq(s, LowerTable)

\* os.path.basename: the chunks after the last separator
Basename(p) ==
    LET seps == {i \in 1..Len(p) : p[i] = "/"}
        last == IF seps = {} THEN 0 ELSE CHOOSE i \in seps : \A k \in seps : k <= i
    IN  SubSeq(p, last + 1, Len(p))

\* os.path.join(d, name): a name that begins with a separator stands alone
Join(d, name) ==
    IF name # <<>> /\ Head(name) = "/" THEN name ELSE d \o <<"/">> \o name

\* str.replace(".png", ".paa"): every occurrence is replaced
ReplacePngPaa(p) == MapSeq(p, [c \in {".png"} |-> ".paa"])

\* bytes.decode("utf-8", errors="ignore"): bytes that are not valid are dropped
InvalidByte == "xFF"
Decode(bytes) == SelectSeq(bytes, LAMBDA b : b # InvalidByte)

Max(a, b) == IF a >= b THEN a ELSE b

\* ------------------------------------------------------------- job values
InputKeys == <<"BaseColor", "Normal", "AO", "Metallic", "Roughness">>
InputKeySet == {InputKeys[i] : i \in 1..Len(InputKeys)}

\* the check boxes of the window, in the order they are created
Codes == <<"co", "nohq", "as", "smdi">>

\* the lists [k for k, cb in checkboxes.items() if cb.isChecked()]
SelectionsOf(checked) ==
    LET F[i \in 0..Len(Codes)] ==
            IF i = 0 THEN <<>>
            ELSE IF Codes[i] \in checked THEN Append(F[i - 1], Codes[i]) ELSE F[i - 1]
    IN  F[Len(Codes)]

CodeSet == {Codes[i] : i \in 1..Len(Codes)}
AllSelections == {SelectionsOf(c) : c \in (SUBSET CodeSet) \ {{}}}

ConverterPaths ==
    { <<"tools", "/", "PAAConverter.exe">>,
      <<"tools", "/", "paaconverter.exe">>,
      <<"tools", "/", "my", "PAAConverter.exe">>,
      <<"paaconverter.exe", "/", "ImageToPAA.exe">>,
      <<"tools", "/", "imagetopaa.exe">>,
      <<"tools", "/", "Other.EXE">> }

OutputDirs == { <<"out">>, <<"tex", ".png", "s">> }
BaseNames  == { <<"rock">>, <<"a", ".png">>, <<"/", "abs">> }
Conventions == {"DirectX", "OpenGL"}
Sizes == {1024}

\* the five texture files the window holds a path for
InputPaths == [k \in InputKeySet |-> <<"in", "/", k, ".tga">>]

ConvertJob ==
    [ input_paths : {InputPaths}, output_dir : OutputDirs, base_name : BaseNames, size : Sizes,
      selections : AllSelections, normal_convention : Conventions,
      converter_path : ConverterPaths ]

\* the standard error a failing converter may have written
MaxStderrLen == 2
StderrBytes == {"E", InvalidByte}
StderrTexts == UNION {[1..n -> StderrBytes] : n \in 0..MaxStderrLen}

\* the exit statuses of a converter that check=True turns into CalledProcessError
FailureCodes == {1, 3}

\* ------------------------------------------------------------------ state
VARIABLES
    job,          \* ConvertWorker.job
    unreadable,   \* the input keys whose file Image.open cannot open
    cancel,       \* ConvertWorker._cancel
    pc,           \* where ConvertWorker.run stands
    idx,          \* the 1-based position of the loop run stands in
    saved,        \* convert_to_png's saved, then run's png_paths
    written,      \* the PNG files this run has written to the output directory
    invoked,      \* the argument lists of the external processes started
    exits,        \* the exit status and standard error of those that have ended
    messages,     \* the values emitted on the signal message
    progress,     \* the values emitted on the signal progress, with the phase
    done,         \* the values emitted on the signal done
    run_btn,      \* run_btn.isEnabled()
    cancel_btn,   \* cancel_btn.isEnabled()
    dialogs,      \* the message boxes _on_done has shown
    ui,           \* the fields of the window a job is built from
    logging,      \* the root logger's handler and the log files on disk
    active,       \* the workers started whose done has not reached _on_done
    runs,         \* the workers started so far
    edits,        \* the changes made to the fields of the window so far
    shared,       \* job.input_paths and the window's input_paths are one dict
    pix           \* the image a packing function is applied to, and its results

vars == <<job, unreadable, cancel, pc, idx, saved, written, invoked, exits, messages,
          progress, done, run_btn, cancel_btn, dialogs,
          ui, logging, active, runs, edits, shared, pix>>

\* what the steps of ConvertWorker.run leave alone besides the worker's own state
sideVars == <<ui, active, runs, edits, shared, pix>>

\* the text of the resolution box and the integer int() makes of it
Resolutions == <<"512", "1024", "2048", "4096">>
ResInt == [r \in {"512", "1024", "2048", "4096"} |->
              CASE r = "512" -> 512 [] r = "1024" -> 1024
                [] r = "2048" -> 2048 [] r = "4096" -> 4096]
ResText(n) == CHOOSE r \in DOMAIN ResInt : ResInt[r] = n

\* fields of the window from which _run builds the job j
FieldsOf(j) ==
    [ input_paths |-> j.input_paths, output_dir |-> j.output_dir,
      converter_path |-> j.converter_path, res |-> ResText(j.size),
      norm |-> j.normal_convention,
      checked |-> {j.selections[i] : i \in 1..Len(j.selections)},
      base |-> j.base_name ]

\* no packing function is being applied
NoPix == [stage |-> "idle"]

\* the state right after _run has built the job and started the worker
Init ==
    /\ job \in ConvertJob
    /\ unreadable \in SUBSET InputKeySet
    /\ cancel = FALSE
    /\ pc = "start"
    /\ idx = 1
    /\ saved = <<>>
    /\ written = {}
    /\ invoked = <<>>
    /\ exits = <<>>
    /\ messages = <<>>
    /\ progress = <<>>
    /\ done = <<>>
    /\ run_btn = FALSE
    /\ cancel_btn = TRUE
    /\ dialogs = <<>>
    /\ ui = FieldsOf(job)
    /\ logging = [handler |-> <<"stderr">>, files |-> <<>>]
    /\ active = 1
    /\ runs = 1
    /\ edits = 0
    /\ shared = FALSE
    /\ pix = NoPix

\* -------------------------------------------------------- convert_to_png
\* the input files one variant reads the pixels of
NeededInputsUsedOnly(key) ==
    CASE key = "co"   -> <<"BaseColor">>
      [] key = "nohq" -> <<"Normal">>
      [] key = "as"   -> <<"AO">>
      [] OTHER        -> <<"Metallic", "Roughness">>

\* the input files one variant opens, in the order it opens them
NeededInputs(key) ==
    CASE key = "co"   -> <<"BaseColor">>
      [] key = "nohq" -> <<"Normal">>
      [] OTHER        -> <<"AO", "Metallic", "Roughness">>

OutPath(j, key) == Join(j.output_dir, j.base_name \o <<"_", key, ".png">>)

\* ------------------------------------------------------ ConvertWorker.run
NumPngs == Len(saved)

\* the packing share stretched over the whole range
PackProgressWide(i, n) == 20 + ((i * 80) \div Max(1, n))

\* the packing share without its offset of 20
PackProgressFromZero(i, n) == (i * 40) \div Max(1, n)

PackProgress(i, n) == 20 + ((i * 40) \div Max(1, n))
\* the per-file share counted from the file that comes next
ConvertProgressEarly(j, n) == 60 + (((j + 1) * 40) \div Max(1, n))

ConvertProgress(j, n) == 60 + ((j * 40) \div Max(1, n))

\* the test of the executable name without lower()
IsBatchCaseSensitive(j) == Contains(Basename(j.converter_path), <<"paaconverter.exe">>)

IsBatch(j) == Contains(Lower(Basename(j.converter_path)), <<"paaconverter.exe">>)

BatchCmd(j) ==
    <<j.converter_path, <<"-batch">>, j.output_dir, <<"-output">>, j.output_dir, <<"-quiet">>>>

PerFileCmd(j, png) == <<j.converter_path, png, ReplacePngPaa(png)>>

CancelledDone == [ok |-> FALSE, png_paths |-> <<>>, err |-> <<"Cancelled">>]

\* str(e) of a CalledProcessError
CalledProcessErrorText == <<"Command returned non-zero exit status">>

\* the error text taken from str(e) whatever the process wrote
ConverterErrorDoneNoStderr(stderr) ==
    [ok |-> FALSE, png_paths |-> <<>>,
     err |-> <<"Converter error: ">> \o CalledProcessErrorText]

ConverterErrorDone(stderr) ==
    [ok |-> FALSE, png_paths |-> <<>>,
     err |-> <<"Converter error: ">> \o
             (IF stderr # <<>> THEN Decode(stderr) ELSE CalledProcessErrorText)]

UnexpectedErrorDone(what) ==
    [ok |-> FALSE, png_paths |-> <<>>,
     err |-> <<"Unexpected error: ", what, "traceback">>]

\* the line format "%(asctime)s %(message)s" of line 493
LogLine(msg) == <<"asctime", " ">> \o msg

\* logging.info(msg): a root logger without a handler is first given a
\* handler for standard error and keeps the level WARNING, which drops msg;
\* the handler of a log file, installed with the level INFO, appends a line
LogInfo(lg, msg) ==
    LET h == IF lg.handler = <<>> THEN <<"stderr">> ELSE lg.handler
    IN  [handler |-> h,
         files |-> IF h[1] = "file"
                   THEN [lg.files EXCEPT ![h[2]] = Append(@, LogLine(msg))]
                   ELSE lg.files]

\* logging.basicConfig(filename=join(dir, "conversion.log"), filemode="w"):
\* nothing is done when the root logger has a handler already
BasicConfig(lg, dir) ==
    IF lg.handler = <<>>
    THEN [handler |-> <<"file", dir>>, files |-> (dir :> <<>>) @@ lg.files]
    ELSE lg

\* the slot _log connected to the signal message, run for the value emitted
LogEmitted(emitted) ==
    IF Len(emitted) > Len(messages)
    THEN LogInfo(logging, emitted[Len(emitted)])
    ELSE logging

Emit(phase, value) == Append(progress, [phase |-> phase, value |-> value])

\* line 102: the first message; convert_to_png is entered
RunStart ==
    /\ pc = "start"
    /\ messages' = Append(messages, <<"Converting to PNG...">>)
    /\ pc' = "pack"
    /\ idx' = 1
    /\ UNCHANGED <<sideVars, job, unreadable, cancel, saved, written, invoked, exits, progress,
                   done, run_btn, cancel_btn, dialogs>>
    /\ logging' = LogEmitted(messages')

\* an iteration that reports a failed open or save and goes on to the next key
PackVariantKeepsGoing ==
    /\ pc = "pack"
    /\ LET key == job.selections[idx]
           need == NeededInputs(key)
           bad == \E i \in 1..Len(need) : need[i] \in unreadable
       IN  /\ \/ /\ bad
                 /\ done' = Append(done, UnexpectedErrorDone("cannot open image"))
                 /\ UNCHANGED <<saved, written>>
              \/ /\ ~bad
                 /\ written' = written \cup {OutPath(job, key)}
                 /\ saved' = Append(saved, OutPath(job, key))
                 /\ UNCHANGED done
           /\ IF idx < Len(job.selections)
              THEN pc' = "pack" /\ idx' = idx + 1
              ELSE pc' = "report" /\ idx' = 1
    /\ UNCHANGED <<sideVars, job, unreadable, cancel, invoked, exits, messages, progress,
                   run_btn, cancel_btn, dialogs>>
    /\ logging' = LogEmitted(messages')

\* one iteration of the loop of convert_to_png (lines 56-80); an input that
\* cannot be opened or a save that fails raises into run's except Exception
PackVariant ==
    /\ pc = "pack"
    /\ LET key == job.selections[idx]
           need == NeededInputs(key)
           bad == \E i \in 1..Len(need) : need[i] \in unreadable
       IN  \/ /\ bad
              /\ done' = Append(done, UnexpectedErrorDone("cannot open image"))
              /\ pc' = "finished"
              /\ UNCHANGED <<idx, saved, written>>
           \/ /\ ~bad
              /\ \/ /\ done' = Append(done, UnexpectedErrorDone("cannot save image"))
                    /\ pc' = "finished"
                    /\ UNCHANGED <<idx, saved, written>>
                 \/ /\ written' = written \cup {OutPath(job, key)}
                    /\ saved' = Append(saved, OutPath(job, key))
                    /\ IF idx < Len(job.selections)
                       THEN pc' = "pack" /\ idx' = idx + 1
                       ELSE pc' = "report" /\ idx' = 1
                    /\ UNCHANGED done
    /\ UNCHANGED <<sideVars, job, unreadable, cancel, invoked, exits, messages, progress,
                   run_btn, cancel_btn, dialogs>>
    /\ logging' = LogEmitted(messages')

\* the reporting loop whose checkpoint emits done and does not return
ReportSavedNoReturn ==
    /\ pc = "report"
    /\ done' = IF cancel THEN Append(done, CancelledDone) ELSE done
    /\ messages' = Append(messages, <<"Saved: ">> \o Basename(saved[idx]))
    /\ progress' = Emit("pack", PackProgress(idx, NumPngs))
    /\ IF idx < NumPngs
       THEN pc' = "report" /\ idx' = idx + 1
       ELSE pc' = "convert" /\ idx' = 1
    /\ UNCHANGED <<sideVars, job, unreadable, cancel, saved, written, invoked, exits,
                   run_btn, cancel_btn, dialogs>>
    /\ logging' = LogEmitted(messages')

\* one iteration of the loop of lines 104-109
ReportSaved ==
    /\ pc = "report"
    /\ IF cancel
       THEN /\ done' = Append(done, CancelledDone)
            /\ pc' = "finished"
            /\ UNCHANGED <<idx, messages, progress>>
       ELSE /\ messages' = Append(messages, <<"Saved: ">> \o Basename(saved[idx]))
            /\ progress' = Emit("pack", PackProgress(idx, NumPngs))
            /\ IF idx < NumPngs
               THEN pc' = "report" /\ idx' = idx + 1
               ELSE pc' = "convert" /\ idx' = 1
            /\ UNCHANGED done
    /\ UNCHANGED <<sideVars, job, unreadable, cancel, saved, written, invoked, exits,
                   run_btn, cancel_btn, dialogs>>
    /\ logging' = LogEmitted(messages')

\* lines 112-119 and 122: the mode is chosen; the batch process is started
StartConversion ==
    /\ pc = "convert"
    /\ IF IsBatch(job)
       THEN /\ messages' = Append(messages, <<"Running PAAConverter batch...">>)
            /\ invoked' = Append(invoked, BatchCmd(job))
            /\ pc' = "batch_wait"
       ELSE /\ messages' = Append(messages, <<"Running ImageToPAA per-file...">>)
            /\ invoked' = invoked
            /\ pc' = "per_file"
    /\ idx' = 1
    /\ UNCHANGED <<sideVars, job, unreadable, cancel, saved, written, exits, progress, done,
                   run_btn, cancel_btn, dialogs>>
    /\ logging' = LogEmitted(messages')

\* subprocess.run of line 119 returns, or raises CalledProcessError for a
\* non-zero exit status, or raises OSError because nothing could be started
BatchExit ==
    /\ pc = "batch_wait"
    /\ \/ /\ exits' = Append(exits, [code |-> 0, stderr |-> <<>>])
          /\ messages' = Append(messages, <<"PAA batch complete.">>)
          /\ pc' = "finish"
          /\ UNCHANGED done
       \/ /\ \E code \in FailureCodes, stderr \in StderrTexts :
                /\ exits' = Append(exits, [code |-> code, stderr |-> stderr])
                /\ done' = Append(done, ConverterErrorDone(stderr))
          /\ pc' = "finished"
          /\ UNCHANGED messages
       \/ /\ done' = Append(done, UnexpectedErrorDone("cannot start process"))
          /\ pc' = "finished"
          /\ UNCHANGED <<messages, exits>>
    /\ UNCHANGED <<sideVars, job, unreadable, cancel, idx, saved, written, invoked,
                   progress, run_btn, cancel_btn, dialogs>>
    /\ logging' = LogEmitted(messages')

\* the per-file loop without its checkpoint
PerFileCheckNoPoll ==
    /\ pc = "per_file"
    /\ invoked' = Append(invoked, PerFileCmd(job, saved[idx]))
    /\ pc' = "file_wait"
    /\ UNCHANGED <<sideVars, job, unreadable, cancel, idx, saved, written, exits, messages,
                   progress, done, run_btn, cancel_btn, dialogs>>
    /\ logging' = LogEmitted(messages')

\* lines 124-132: the checkpoint of one file, then its process is started
PerFileCheck ==
    /\ pc = "per_file"
    /\ IF cancel
       THEN /\ done' = Append(done, CancelledDone)
            /\ pc' = "finished"
            /\ UNCHANGED invoked
       ELSE /\ invoked' = Append(invoked, PerFileCmd(job, saved[idx]))
            /\ pc' = "file_wait"
            /\ UNCHANGED done
    /\ UNCHANGED <<sideVars, job, unreadable, cancel, idx, saved, written, exits, messages,
                   progress, run_btn, cancel_btn, dialogs>>
    /\ logging' = LogEmitted(messages')

\* subprocess.run of line 132 returns or raises; lines 133-134
PerFileExit ==
    /\ pc = "file_wait"
    /\ \/ /\ exits' = Append(exits, [code |-> 0, stderr |-> <<>>])
          /\ messages' = Append(messages, <<"Converted: ">> \o Basename(saved[idx]))
          /\ progress' = Emit("convert", ConvertProgress(idx, NumPngs))
          /\ IF idx < NumPngs
             THEN pc' = "per_file" /\ idx' = idx + 1
             ELSE pc' = "finish" /\ idx' = idx
          /\ UNCHANGED done
       \/ /\ \E code \in FailureCodes, stderr \in StderrTexts :
                /\ exits' = Append(exits, [code |-> code, stderr |-> stderr])
                /\ done' = Append(done, ConverterErrorDone(stderr))
          /\ pc' = "finished"
          /\ UNCHANGED <<messages, progress, idx>>
       \/ /\ done' = Append(done, UnexpectedErrorDone("cannot start process"))
          /\ pc' = "finished"
          /\ UNCHANGED <<messages, progress, idx, exits>>
    /\ UNCHANGED <<sideVars, job, unreadable, cancel, saved, written, invoked,
                   run_btn, cancel_btn, dialogs>>
    /\ logging' = LogEmitted(messages')

\* the end of run with one more checkpoint before the success is emitted
FinishPollsCancel ==
    /\ pc = "finish"
    /\ IF cancel
       THEN /\ done' = Append(done, CancelledDone)
            /\ UNCHANGED progress
       ELSE /\ progress' = Emit("convert", 100)
            /\ done' = Append(done, [ok |-> TRUE, png_paths |-> saved, err |-> <<>>])
    /\ pc' = "finished"
    /\ UNCHANGED <<sideVars, job, unreadable, cancel, idx, saved, written, invoked, exits,
                   messages, run_btn, cancel_btn, dialogs>>
    /\ logging' = LogEmitted(messages')

\* lines 136-137
Finish ==
    /\ pc = "finish"
    /\ progress' = Emit("convert", 100)
    /\ done' = Append(done, [ok |-> TRUE, png_paths |-> saved, err |-> <<>>])
    /\ pc' = "finished"
    /\ UNCHANGED <<sideVars, job, unreadable, cancel, idx, saved, written, invoked, exits,
                   messages, run_btn, cancel_btn, dialogs>>
    /\ logging' = LogEmitted(messages')

\* ------------------------------------------------------ TextureExporterUI
\* QThread.isRunning()
IsRunning == pc # "finished"

\* the Cancel button is pressed: _cancel, then ConvertWorker.cancel
UICancel ==
    /\ cancel_btn
    /\ IsRunning
    /\ cancel' = TRUE
    /\ logging' = LogInfo(logging, <<"Cancelling...">>)
    /\ UNCHANGED <<sideVars, job, unreadable, pc, idx, saved, written, invoked, exits,
                   messages, progress, done, run_btn, cancel_btn, dialogs>>

\* _on_done that gives the buttons back only after a success
OnDoneOkOnly ==
    /\ Len(dialogs) < Len(done)
    /\ LET d == done[Len(dialogs) + 1]
       IN  /\ run_btn' = d.ok
           /\ cancel_btn' = ~d.ok
           /\ dialogs' = Append(dialogs,
                  IF d.ok
                  THEN [kind |-> "information", title |-> "Done",
                        text |-> <<"Conversion complete!">>]
                  ELSE [kind |-> "critical", title |-> "Error",
                        text |-> IF d.err # <<>> THEN d.err
                                 ELSE <<"Conversion failed.">>])
           /\ logging' = LogInfo(logging,
                  IF d.ok THEN <<"All done.">>
                  ELSE IF d.err # <<>> THEN d.err ELSE <<"Failed.">>)
    /\ active' = active - 1
    /\ UNCHANGED <<job, unreadable, cancel, pc, idx, saved, written, invoked, exits,
                   messages, progress, done, ui, runs, edits, shared, pix>>

\* the queued signal done reaches the window: _on_done
OnDone ==
    /\ Len(dialogs) < Len(done)
    /\ run_btn' = TRUE
    /\ cancel_btn' = FALSE
    /\ LET d == done[Len(dialogs) + 1]
       IN  /\ dialogs' = Append(dialogs,
               IF d.ok
               THEN [kind |-> "information", title |-> "Done",
                     text |-> <<"Conversion complete!">>]
               ELSE [kind |-> "critical", title |-> "Error",
                     text |-> IF d.err # <<>> THEN d.err
                              ELSE <<"Conversion failed.">>])
           /\ logging' = LogInfo(logging,
                  IF d.ok THEN <<"All done.">>
                  ELSE IF d.err # <<>> THEN d.err ELSE <<"Failed.">>)
    /\ active' = active - 1
    /\ UNCHANGED <<job, unreadable, cancel, pc, idx, saved, written, invoked, exits,
                   messages, progress, done, ui, runs, edits, shared, pix>>

Next ==
    \/ RunStart
    \/ PackVariant
    \/ ReportSaved
    \/ StartConversion
    \/ BatchExit
    \/ PerFileCheck
    \/ PerFileExit
    \/ Finish
    \/ UICancel
    \/ OnDone

Spec == Init /\ [][Next]_vars

\* the steps of the worker thread
WorkerNext ==
    \/ RunStart
    \/ PackVariant
    \/ ReportSaved
    \/ StartConversion
    \/ BatchExit
    \/ PerFileCheck
    \/ PerFileExit
    \/ Finish

\* the worker thread keeps running, every external process ends, and the
\* event loop of the window delivers a queued signal
FairSpec == Spec /\ WF_vars(WorkerNext) /\ WF_vars(OnDone)

\* --------------------------------------------- TextureExporterUI: the fields
MaxEdits == 1
MaxRuns == 2

\* what the steps that edit a field of the window leave alone
runVars == <<unreadable, cancel, pc, idx, saved, written, invoked, exits, messages,
             progress, done, run_btn, cancel_btn, dialogs, logging, active, runs, pix>>

\* str.strip()
Strip(s) ==
    LET ink == {i \in 1..Len(s) : s[i] # " "}
    IN  IF ink = {} THEN <<>>
        ELSE SubSeq(s, CHOOSE i \in ink : \A k \in ink : i <= k,
                       CHOOSE i \in ink : \A k \in ink : k <= i)

ImageExts == {".png", ".tga", ".jpg", ".jpeg", ".tif", ".tiff"}
Exts == ImageExts \cup {".txt", ".exe"}

\* os.path.splitext(name): the stem and the extension
Stem(name) ==
    IF name # <<>> /\ name[Len(name)] \in Exts THEN SubSeq(name, 1, Len(name) - 1) ELSE name
Ext(name) ==
    IF name # <<>> /\ name[Len(name)] \in Exts THEN <<name[Len(name)]>> ELSE <<>>

NoInputs == [k \in InputKeySet |-> <<>>]

\* the window before load_settings: lines 193-195 and _build_ui
FreshFields ==
    [ input_paths |-> NoInputs, output_dir |-> <<>>, converter_path |-> <<>>,
      res |-> "1024", norm |-> "Auto", checked |-> CodeSet, base |-> <<>> ]

\* the stores QSettings may hold when the window is opened: none, and two
\* written by save_settings of an earlier session (every path still exists)
PersistedSettings ==
    { [ textures |-> NoInputs, output_dir |-> <<>>, converter_path |-> <<>>,
        resolution |-> "", types |-> CodeSet, base_name |-> <<>>,
        normal_conv |-> "Auto" ],
      [ textures |-> InputPaths, output_dir |-> <<"out">>,
        converter_path |-> <<"tools", "/", "PAAConverter.exe">>,
        resolution |-> "1024", types |-> {"co", "nohq"}, base_name |-> <<"rock">>,
        normal_conv |-> "Auto" ],
      [ textures |-> InputPaths, output_dir |-> <<"out">>,
        converter_path |-> <<"tools", "/", "imagetopaa.exe">>,
        resolution |-> "512", types |-> {"co"}, base_name |-> <<"rock">>,
        normal_conv |-> "OpenGL" ] }

\* load_settings: a stored value that is empty leaves the field as built
LoadSettings(st) ==
    [ input_paths |-> [k \in InputKeySet |->
                          IF st.textures[k] # <<>> THEN st.textures[k] ELSE <<>>],
      output_dir |-> st.output_dir,
      converter_path |-> st.converter_path,
      res |-> IF st.resolution \in DOMAIN ResInt THEN st.resolution ELSE "1024",
      norm |-> st.normal_conv,
      checked |-> st.types,
      base |-> st.base_name ]

\* the files the file dialogs and a drop may deliver
NewPath(k) ==
    IF k = "Normal" THEN <<"new", "/", "Normal", "_OGL", ".png">>
    ELSE <<"new", "/", k, ".png">>

\* the folder the user may pick for _auto_detect_folder, and its listing
AutoFolder == <<"maps">>
AutoFiles ==
    { <<"rock", "_", "albedo", ".png">>, <<"rock", "_", "normal", ".png">>,
      <<"rock", "_", "Metal", ".tga">>, <<"norm", ".txt">>, <<"notes", ".txt">> }

\* token_map of lines 434-440
TokenMap ==
    [k \in InputKeySet |->
        CASE k = "BaseColor" -> {"basecolor", "base_color", "albedo", "diffuse", "col"}
          [] k = "Normal"    -> {"normal", "norm", "nrm", "_n"}
          [] k = "AO"        -> {"ao", "ambientocclusion"}
          [] k = "Metallic"  -> {"metal", "metallic"}
          [] k = "Roughness" -> {"rough", "roughness"}]

\* the files of the listing that lines 443-449 may assign to key
Candidates(key) ==
    { f \in AutoFiles :
        /\ Ext(Lower(f)) # <<>>
        /\ Ext(Lower(f))[1] \in ImageExts
        /\ \E tok \in TokenMap[key] : Contains(Stem(Lower(f)), <<tok>>) }

UIOutputDirs == { <<"out">>, <<"out2">> }
UIConverters ==
    { <<"tools", "/", "PAAConverter.exe">>, <<"tools", "/", "my", "PAAConverter.exe">>,
      <<"tools", "/", "imagetopaa.exe">>, <<"tools", "/", "Other.EXE">> }
UIBaseTexts == { <<"rock">>, <<" ">> }
UIResTexts == {"512", "1024"}
UINormTexts == {"Auto", "DirectX", "OpenGL"}

\* an assignment self.input_paths[key] = path: it is seen through every
\* reference to that dict
SetInputs(new) ==
    /\ ui' = [ui EXCEPT !.input_paths = new.input_paths, !.base = new.base]
    /\ job' = IF shared THEN [job EXCEPT !.input_paths = new.input_paths] ELSE job

SuggestBase(fields, path) ==
    IF Strip(fields.base) = <<>> THEN Stem(Basename(path)) ELSE fields.base

\* _select_file with a file chosen in the dialog
UISelectFile ==
    /\ edits < MaxEdits
    /\ \E key \in InputKeySet :
          SetInputs([input_paths |-> [ui.input_paths EXCEPT ![key] = NewPath(key)],
                     base |-> IF key = "BaseColor" THEN SuggestBase(ui, NewPath(key))
                              ELSE ui.base])
    /\ edits' = edits + 1
    /\ UNCHANGED <<runVars, shared>>

\* DropLineEdit.dropEvent: the first URL, which has no local file when it is
\* not a file URL
UIDrop ==
    /\ edits < MaxEdits
    /\ \E key \in InputKeySet : \E path \in {NewPath(key), <<>>} :
          SetInputs([input_paths |-> [ui.input_paths EXCEPT ![key] = path],
                     base |-> ui.base])
    /\ edits' = edits + 1
    /\ UNCHANGED <<runVars, shared>>

\* what lines 442-449 may leave in assigned for key: a file, or nothing
Assignable(key) == IF Candidates(key) = {} THEN {<<>>} ELSE Candidates(key)

\* _auto_detect_folder with a folder chosen in the dialog
UIAutoDetect ==
    /\ edits < MaxEdits
    /\ \E co \in Assignable("BaseColor"), no \in Assignable("Normal"),
          ao \in Assignable("AO"), me \in Assignable("Metallic"),
          ro \in Assignable("Roughness") :
          LET assigned == [k \in InputKeySet |->
                              CASE k = "BaseColor" -> co [] k = "Normal" -> no
                                [] k = "AO" -> ao [] k = "Metallic" -> me
                                [] k = "Roughness" -> ro]
              paths == [k \in InputKeySet |->
                           IF assigned[k] # <<>> THEN Join(AutoFolder, assigned[k])
                           ELSE ui.input_paths[k]]
          IN  SetInputs([input_paths |-> paths,
                         base |-> IF assigned["BaseColor"] # <<>>
                                  THEN SuggestBase(ui, paths["BaseColor"])
                                  ELSE ui.base])
    /\ edits' = edits + 1
    /\ UNCHANGED <<runVars, shared>>

\* _select_output with a folder chosen in the dialog
UISelectOutput ==
    /\ edits < MaxEdits
    /\ \E d \in UIOutputDirs : ui' = [ui EXCEPT !.output_dir = d]
    /\ edits' = edits + 1
    /\ UNCHANGED <<runVars, job, shared>>

\* the test of line 388
ConverterAccepted(path) ==
    \/ Contains(Lower(Basename(path)), <<"paaconverter.exe">>)
    \/ Contains(Lower(Basename(path)), <<"imagetopaa.exe">>)

\* _select_converter with a file chosen in the dialog
UISelectConverter ==
    /\ edits < MaxEdits
    /\ \E path \in UIConverters :
          ui' = IF ConverterAccepted(path) THEN [ui EXCEPT !.converter_path = path]
                ELSE ui
    /\ edits' = edits + 1
    /\ UNCHANGED <<runVars, job, shared>>

\* the resolution box, the convention box, a check box or the base name is changed
UISetOption ==
    /\ edits < MaxEdits
    /\ \/ \E r \in UIResTexts : ui' = [ui EXCEPT !.res = r]
       \/ \E n \in UINormTexts : ui' = [ui EXCEPT !.norm = n]
       \/ \E c \in CodeSet :
             ui' = [ui EXCEPT !.checked = IF c \in @ THEN @ \ {c} ELSE @ \cup {c}]
       \/ \E b \in UIBaseTexts : ui' = [ui EXCEPT !.base = b]
    /\ edits' = edits + 1
    /\ UNCHANGED <<runVars, job, shared>>

\* _reset: input_paths is bound to a new dict
UIReset ==
    /\ edits < MaxEdits
    /\ ui' = [FreshFields EXCEPT !.norm = ui.norm]
    /\ shared' = FALSE
    /\ edits' = edits + 1
    /\ UNCHANGED <<runVars, job>>

\* _detect_normal_convention
DetectNormalConvention(fields) ==
    LET name == Lower(Basename(fields.input_paths["Normal"]))
    IN  IF fields.norm \in {"DirectX", "OpenGL"} THEN fields.norm
        ELSE IF \E t \in {"opengl", "_ogl", "-ogl"} : Contains(name, <<t>>) THEN "OpenGL"
        ELSE "DirectX"

\* the checks of lines 474-482 let the job start
RunAccepted(fields) ==
    /\ \A k \in InputKeySet : fields.input_paths[k] # <<>>
    /\ Strip(fields.base) # <<>>
    /\ fields.output_dir # <<>>
    /\ fields.converter_path # <<>>
    /\ SelectionsOf(fields.checked) # <<>>

\* ConvertJob(...) of lines 500-508
BuildJob(fields) ==
    [ input_paths |-> fields.input_paths, output_dir |-> fields.output_dir,
      base_name |-> Strip(fields.base), size |-> ResInt[fields.res],
      selections |-> SelectionsOf(fields.checked),
      normal_convention |-> DetectNormalConvention(fields),
      converter_path |-> fields.converter_path ]

\* input_paths=self.input_paths with the dict handed over as it is
CopySharesDictNoCopy == TRUE

\* input_paths=self.input_paths.copy(): the job's dict is not the window's
CopySharesDict == FALSE

\* the buttons left as they are when the worker is started
RunButtonsUntouched == [run |-> TRUE, cancel |-> FALSE]

\* lines 510-511
RunButtons == [run |-> FALSE, cancel |-> TRUE]

\* the Convert button is pressed: _run; a job that fails the checks is not
\* started and nothing changes
UIRun ==
    /\ run_btn
    /\ runs < MaxRuns
    /\ RunAccepted(ui)
    /\ job' = BuildJob(ui)
    /\ shared' = CopySharesDict
    /\ logging' = BasicConfig(
           LogInfo(logging, <<"Normal convention: ", DetectNormalConvention(ui)>>),
           ui.output_dir)
    /\ run_btn' = RunButtons.run
    /\ cancel_btn' = RunButtons.cancel
    /\ cancel' = FALSE
    /\ pc' = "start"
    /\ idx' = 1
    /\ saved' = <<>>
    /\ written' = {}
    /\ invoked' = <<>>
    /\ exits' = <<>>
    /\ messages' = <<>>
    /\ progress' = <<>>
    /\ done' = <<>>
    /\ dialogs' = <<>>
    /\ active' = active + 1
    /\ runs' = runs + 1
    /\ UNCHANGED <<ui, unreadable, edits, pix>>

\* the window after __init__ with one of the stores; no worker exists
InitUI ==
    /\ \E st \in PersistedSettings : ui = LoadSettings(st)
    /\ job = BuildJob(FreshFields)
    /\ unreadable = {}
    /\ cancel = FALSE
    /\ pc = "finished"
    /\ idx = 1
    /\ saved = <<>>
    /\ written = {}
    /\ invoked = <<>>
    /\ exits = <<>>
    /\ messages = <<>>
    /\ progress = <<>>
    /\ done = <<>>
    /\ run_btn = TRUE
    /\ cancel_btn = FALSE
    /\ dialogs = <<>>
    /\ logging = [handler |-> <<>>, files |-> <<>>]
    /\ active = 0
    /\ runs = 0
    /\ edits = 0
    /\ shared = FALSE
    /\ pix = NoPix

NextUI ==
    \/ UISelectFile
    \/ UIDrop
    \/ UIAutoDetect
    \/ UISelectOutput
    \/ UISelectConverter
    \/ UISetOption
    \/ UIReset
    \/ UIRun
    \/ UICancel
    \/ OnDone
    \/ RunStart
    \/ PackVariant
    \/ ReportSaved
    \/ StartConversion
    \/ BatchExit
    \/ PerFileCheck
    \/ PerFileExit
    \/ Finish

SpecUI == InitUI /\ [][NextUI]_vars

\* ------------------------------------------------ the packing of one image
\* An image is its mode, the length of its side and the value of its pixels:
\* every pixel of a modelled image has the same value, which resampling keeps.
PixelValues == {0, 1, 128, 255}
WideValues == {0, 255, 256, 65535}

Images ==
    [mode : {"L"}, side : {1024, 2048}, px : {<<v>> : v \in PixelValues}]
    \cup [mode : {"I;16", "I"}, side : {1024, 2048}, px : {<<v>> : v \in WideValues}]
    \cup [mode : {"RGB", "P"}, side : {1024, 2048},
          px : {<<r, g, b>> : r \in {0, 255}, g \in PixelValues, b \in {1, 128}}]
    \cup [mode : {"RGBA"}, side : {1024, 2048},
          px : {<<r, g, b, 128>> : r \in {0, 255}, g \in PixelValues, b \in {1, 128}}]

NoImage == [mode |-> "none", side |-> 0, px |-> <<>>]

\* what Image.merge raises for a band that is not of mode L
ModeMismatch == [mode |-> "ValueError: mode mismatch", side |-> 0, px |-> <<>>]

\* the luma of convert("L"): (19595 R + 38470 G + 7471 B + 0x8000) >> 16
Luma(r, g, b) == (19595 * r + 38470 * g + 7471 * b + 32768) \div 65536

\* img.convert("L") of an image of mode RGB, RGBA or P
ConvertL(img) ==
    [mode |-> "L", side |-> img.side, px |-> <<Luma(img.px[1], img.px[2], img.px[3])>>]

\* img.convert("RGB") of an image of mode L, RGB, RGBA or P
ConvertRGB(img) ==
    [mode |-> "RGB", side |-> img.side,
     px |-> IF img.mode = "L" THEN <<img.px[1], img.px[1], img.px[1]>>
            ELSE <<img.px[1], img.px[2], img.px[3]>>]

\* img.resize(size, Image.LANCZOS) if img.size != size else img
Resized(img, side) == IF img.side # side THEN [img EXCEPT !.side = side] ELSE img

\* load_grayscale, lines 20-26
LoadGrayscale(img, side) ==
    Resized(IF img.mode \notin {"L", "I;16", "I"} THEN ConvertL(img) ELSE img, side)

\* the inversion with 256 in the place of 255, in 8 bits
InvertValueFrom256(v) == (256 - v) % 256

\* lambda v: 255 - v of lines 65 and 76
InvertValue(v) == 255 - v

\* Image.new("L", size, 255)
White(side) == [mode |-> "L", side |-> side, px |-> <<255>>]

\* Image.merge("RGB", (r, g, b))
MergeRGB(r, g, b) ==
    IF r.mode = "L" /\ g.mode = "L" /\ b.mode = "L"
    THEN [mode |-> "RGB", side |-> r.side, px |-> <<r.px[1], g.px[1], b.px[1]>>]
    ELSE ModeMismatch

\* the branch nohq of convert_to_png, lines 61-67
PackNohq(img, convention, side) ==
    LET normal == ConvertRGB(img)
        inverted == [normal EXCEPT !.px[2] = InvertValue(@)]
    IN  Resized(IF convention = "OpenGL" THEN inverted ELSE normal, side)

\* the branch as of convert_to_png, line 74, for the AO image loaded
PackAs(ao, side) == MergeRGB(White(side), ao, White(side))

\* the branch smdi of convert_to_png, lines 76-77
PackSmdi(metal, rough, side) ==
    MergeRGB(White(side), metal, [rough EXCEPT !.px[1] = InvertValue(@)])

nonPix == <<job, unreadable, cancel, pc, idx, saved, written, invoked, exits, messages,
            progress, done, run_btn, cancel_btn, dialogs, ui, logging, active, runs,
            edits, shared>>

\* an image file has been opened for a job of the size 1024
InitPix ==
    /\ \E img \in Images, c \in Conventions :
          pix = [stage |-> "opened", src |-> img, side |-> 1024, conv |-> c,
                 out |-> NoImage, out2 |-> NoImage]
    /\ ui = FreshFields
    /\ job = BuildJob(FreshFields)
    /\ unreadable = {}
    /\ cancel = FALSE
    /\ pc = "finished"
    /\ idx = 1
    /\ saved = <<>>
    /\ written = {}
    /\ invoked = <<>>
    /\ exits = <<>>
    /\ messages = <<>>
    /\ progress = <<>>
    /\ done = <<>>
    /\ run_btn = TRUE
    /\ cancel_btn = FALSE
    /\ dialogs = <<>>
    /\ logging = [handler |-> <<>>, files |-> <<>>]
    /\ active = 0
    /\ runs = 0
    /\ edits = 0
    /\ shared = FALSE

\* the image is packed as the normal map (modes that convert("RGB") takes)
PixNohq ==
    /\ pix.stage = "opened"
    /\ pix.src.mode \in {"L", "RGB", "RGBA", "P"}
    /\ pix' = [pix EXCEPT !.stage = "nohq", !.out = PackNohq(pix.src, pix.conv, pix.side)]
    /\ UNCHANGED nonPix

\* the PNG written for nohq is packed as a normal map once more
PixNohqAgain ==
    /\ pix.stage = "nohq"
    /\ pix' = [pix EXCEPT !.stage = "nohq2", !.out2 = PackNohq(pix.out, pix.conv, pix.side)]
    /\ UNCHANGED nonPix

\* the image is loaded by load_grayscale
PixLoadGray ==
    /\ pix.stage = "opened"
    /\ pix' = [pix EXCEPT !.stage = "gray", !.out = LoadGrayscale(pix.src, pix.side)]
    /\ UNCHANGED nonPix

\* the image loaded is packed as the AO map of as
PixAs ==
    /\ pix.stage = "gray"
    /\ pix' = [pix EXCEPT !.stage = "as", !.out2 = PackAs(pix.out, pix.side)]
    /\ UNCHANGED nonPix

\* the image loaded is packed as the metallic and the roughness map of smdi
PixSmdi ==
    /\ pix.stage = "gray"
    /\ pix' = [pix EXCEPT !.stage = "smdi", !.out2 = PackSmdi(pix.out, pix.out, pix.side)]
    /\ UNCHANGED nonPix

NextPix ==
    \/ PixNohq
    \/ PixNohqAgain
    \/ PixLoadGray
    \/ PixAs
    \/ PixSmdi

SpecPix == InitPix /\ [][NextPix]_vars

TypeOK ==
    /\ job \in ConvertJob
    /\ cancel \in BOOLEAN
    /\ pc \in {"start", "pack", "report", "convert", "batch_wait", "per_file",
               "file_wait", "finish", "finished"}
    /\ idx \in 1..Len(Codes)

\* ----------------------------------------------------------------- claims
NumSel == Len(job.selections)
Ended == pc = "finished"
Succeeded == Len(done) = 1 /\ done[1].ok
WasCancelled == Len(done) = 1 /\ done[1] = CancelledDone
Failed == Len(done) = 1 /\ ~done[1].ok /\ done[1] # CancelledDone
ExactName(name) == Lower(Basename(job.converter_path)) = <<name>>
ProgressOf(phase) == SelectSeq(progress, LAMBDA e : e.phase = phase)

\* C1: when the k-th external process (per-file mode) or the single process
\* (batch mode) exits non-zero, no further process is started, the run ends
\* with a failure and never with success, and the failure message contains
\* the decoded standard error of that process.
C1_FailFast ==
    \A k \in 1..Len(exits) :
        exits[k].code # 0 =>
            /\ Len(invoked) = k
            /\ Ended
            /\ Failed
            /\ Contains(done[1].err, Decode(exits[k].stderr))

C1_Witness ==
    /\ ~IsBatch(job)
    /\ NumSel = 3
    /\ Len(exits) = 2
    /\ exits[2].code # 0
    /\ Decode(exits[2].stderr) # <<>>
    /\ Len(dialogs) = 1

\* C2: in per-file mode a cancellation requested before the checkpoint of a
\* conversion is observed there: the step taken from the checkpoint starts no
\* process and ends the run with the cancelled outcome, and an ended run
\* starts no process and emits no further outcome.
C2_CancelObserved ==
    [][ /\ (cancel /\ pc = "per_file") =>
              /\ invoked' = invoked
              /\ pc' # pc => (pc' = "finished" /\ done' = <<CancelledDone>>)
        /\ Ended => (pc' = pc /\ invoked' = invoked /\ done' = done) ]_vars

C2_Witness ==
    /\ NumSel = 3
    /\ Len(invoked) = 1
    /\ Len(exits) = 1
    /\ exits[1].code = 0
    /\ WasCancelled
    /\ Ended

\* C3: a run that ends because a cancellation was observed is presented by
\* the window as a cancelled outcome, not as an error.
C3_CancelNotError ==
    \A i \in 1..Len(dialogs) :
        done[i] = CancelledDone =>
            (dialogs[i].kind # "critical" /\ dialogs[i].title # "Error")

\* C4: with a converter named paaconverter.exe in any letter case, a run that
\* succeeds has started exactly one process, with the arguments converter
\* path, -batch, output directory, -output, output directory, -quiet, and
\* the conversion phase has emitted the single progress value 100.
C4_BatchOnce ==
    (ExactName("paaconverter.exe") /\ Succeeded) =>
        /\ invoked = << <<job.converter_path, <<"-batch">>, job.output_dir,
                          <<"-output">>, job.output_dir, <<"-quiet">>>> >>
        /\ ProgressOf("convert") = <<[phase |-> "convert", value |-> 100]>>

C4_Witness ==
    /\ job.converter_path = <<"tools", "/", "PAAConverter.exe">>
    /\ NumSel = 4
    /\ Succeeded
    /\ Len(invoked) = 1

\* C5: with a converter named imagetopaa.exe in any letter case, a run that
\* succeeds has started exactly one process per selected variant, in the
\* order of the produced PNG list, and the progress value 100 is emitted only
\* when every one of those processes has exited with status 0.
C5_PerFileAll ==
    ExactName("imagetopaa.exe") =>
        /\ Succeeded =>
              /\ Len(invoked) = NumSel
              /\ Len(saved) = NumSel
              /\ \A i \in 1..NumSel :
                    /\ invoked[i][1] = job.converter_path
                    /\ invoked[i][2] = saved[i]
        /\ (\E p \in 1..Len(progress) : progress[p].value = 100) =>
              /\ Len(exits) = NumSel
              /\ \A i \in 1..NumSel : exits[i].code = 0

C5_Witness ==
    /\ job.converter_path = <<"paaconverter.exe", "/", "ImageToPAA.exe">>
    /\ NumSel = 3
    /\ Succeeded
    /\ Len(invoked) = 3

\* C6: every progress value emitted is an integer in 0..100 and the sequence
\* of emitted values never decreases.
C6_ProgressMonotone ==
    /\ \A p \in 1..Len(progress) : progress[p].value \in 0..100
    /\ \A p \in 1..(Len(progress) - 1) : progress[p].value <= progress[p + 1].value

C6_Witness ==
    /\ ~IsBatch(job)
    /\ NumSel = 4
    /\ Len(progress) = 9
    /\ Succeeded

\* C7 as stated: one progress update per saved PNG during packing, each in
\* 0..50, and every value of the conversion phase in 50..100.
C7_HalfSplit ==
    /\ Len(ProgressOf("pack")) <= Len(saved)
    /\ pc \in {"convert", "batch_wait", "per_file", "file_wait", "finish"} =>
           Len(ProgressOf("pack")) = Len(saved)
    /\ \A p \in 1..Len(progress) :
           /\ progress[p].phase = "pack" => progress[p].value \in 0..50
           /\ progress[p].phase = "convert" => progress[p].value \in 50..100

\* C7 amended: never more than one packing update per saved PNG and exactly
\* one per saved PNG once the conversion phase is entered, each in 20..60;
\* every value of the conversion phase in 60..100.
C7_PhaseSplit ==
    /\ Len(ProgressOf("pack")) <= Len(saved)
    /\ pc \in {"convert", "batch_wait", "per_file", "file_wait", "finish"} =>
           Len(ProgressOf("pack")) = Len(saved)
    /\ \A p \in 1..Len(progress) :
           /\ progress[p].phase = "pack" => progress[p].value \in 20..60
           /\ progress[p].phase = "convert" => progress[p].value \in 60..100

C7_Witness ==
    /\ NumSel = 3
    /\ Len(ProgressOf("pack")) = 3
    /\ Len(ProgressOf("convert")) = 2
    /\ pc = "per_file"

\* C8: when an input texture cannot be opened the run fails and no output
\* PNG of the job has been written.
C8_NoOutputOnInputError ==
    (Len(done) = 1 /\ done[1] = UnexpectedErrorDone("cannot open image")) =>
        written = {}

\* C9: when packing raises an I/O error (an input that cannot be opened, a
\* PNG that cannot be saved) the run ends with a failure and no external
\* process is started, in batch mode and in per-file mode.
PackingError ==
    \E what \in {"cannot open image", "cannot save image"} :
        \E i \in 1..Len(done) : done[i] = UnexpectedErrorDone(what)

NeedsUnreadable ==
    \E i \in 1..NumSel :
        \E n \in 1..Len(NeededInputs(job.selections[i])) :
            NeededInputs(job.selections[i])[n] \in unreadable

C9_PackErrorNoProcess ==
    /\ PackingError => (Ended /\ Failed /\ invoked = <<>>)
    /\ NeedsUnreadable => (invoked = <<>> /\ (Ended => Failed))

C9_Witness ==
    /\ NumSel = 2
    /\ Len(saved) = 1
    /\ PackingError
    /\ Len(dialogs) = 1

\* C10: a cancellation requested before the k-th selected variant is packed
\* (k > 1) is observed before that variant is packed: no PNG is written once
\* the request has been made.
C10_CancelStopsPacking ==
    [][ (cancel /\ pc = "pack" /\ idx > 1) => written' = written ]_vars

\* C13: every started run eventually emits a terminal outcome and never a
\* second one; a success carries the whole list of produced PNG paths, any
\* other outcome a text that is not empty; once the outcome is emitted the
\* worker emits no further progress value and no further message.
C13_OneOutcome ==
    /\ <>(Len(done) = 1)
    /\ [](Len(done) <= 1)
    /\ [](Len(done) = 1 =>
             IF done[1].ok
             THEN /\ done[1].png_paths = saved
                  /\ Len(saved) = NumSel
                  /\ \A i \in 1..NumSel : saved[i] \in written
             ELSE done[1].err # <<>>)
    /\ [][Len(done) = 1 =>
             (messages' = messages /\ progress' = progress /\ done' = done)]_vars

C13_Witness ==
    /\ Succeeded
    /\ NumSel = 2
    /\ done[1].png_paths = saved
    /\ IsBatch(job)
    /\ Len(dialogs) = 1

\* C16: when packing returns, the list has one path per selected variant, in
\* the order of the selections, the i-th being the output directory, a
\* separator, the base name, "_", the i-th code and ".png", and a PNG has
\* been written at each path.
C16_PackPaths ==
    pc \in {"report", "convert", "batch_wait", "per_file", "file_wait", "finish"} =>
        /\ Len(saved) = NumSel
        /\ \A i \in 1..NumSel :
              /\ saved[i] = job.output_dir \o <<"/">> \o job.base_name
                                \o <<"_", job.selections[i], ".png">>
              /\ saved[i] \in written

\* C19: in per-file mode every process is started with the produced PNG path
\* and an output path that differs from it in the final extension only.
C19_SiblingOutput ==
    ~IsBatch(job) =>
        \A i \in 1..Len(invoked) :
            LET png == invoked[i][2]
                paa == invoked[i][3]
            IN  /\ png = saved[i]
                /\ Len(paa) = Len(png)
                /\ SubSeq(paa, 1, Len(paa) - 1) = SubSeq(png, 1, Len(png) - 1)
                /\ paa[Len(paa)] # png[Len(png)]

\* C20: while a job is in flight Convert is disabled and Cancel enabled; once
\* its outcome has been handled Convert is enabled and Cancel disabled; and a
\* job in flight is always followed by a state in which Convert is enabled.
C20_ButtonsTrack ==
    /\ [](active = 1 => (~run_btn /\ cancel_btn))
    /\ [](active = 0 => (run_btn /\ ~cancel_btn))
    /\ [](active = 1 => <>(active = 0 /\ run_btn))

C20_Witness ==
    /\ active = 0
    /\ run_btn
    /\ ~cancel_btn
    /\ Len(dialogs) = 1
    /\ dialogs[1].text = UnexpectedErrorDone("cannot open image").err

\* C11: a job is only ever started with a converter whose file name is, in
\* any letter case, exactly paaconverter.exe or imagetopaa.exe, and per-file
\* mode is only used for a converter named imagetopaa.exe.
C11_ConverterNamed ==
    runs >= 1 =>
        /\ \/ ExactName("paaconverter.exe")
           \/ ExactName("imagetopaa.exe")
        /\ pc \in {"per_file", "file_wait"} => ExactName("imagetopaa.exe")

\* C12: while a run is in flight the root logger writes to conversion.log of
\* that run's output directory, and the file, truncated when the job
\* started, holds one line per message the worker has emitted since.
C12_LogPerRun ==
    active = 1 =>
        /\ logging.handler = <<"file", job.output_dir>>
        /\ job.output_dir \in DOMAIN logging.files
        /\ \A i \in 1..Len(messages) :
              \E n \in 1..Len(logging.files[job.output_dir]) :
                  logging.files[job.output_dir][n] = LogLine(messages[i])

\* C14: at most one worker has not yet had its outcome handled; while there
\* is one the Convert button is disabled; and a worker is only started when
\* no other is in that state.
C14_OneJob ==
    /\ [](active <= 1)
    /\ [](active = 1 => ~run_btn)
    /\ [][runs' # runs => (active = 0 /\ active' = 1)]_vars

C14_Witness ==
    /\ runs = 2
    /\ active = 1
    /\ pc = "pack"
    /\ ~run_btn

\* C15: while a job is in flight no step changes any of its fields, whatever
\* is done to the fields of the window.
C15_JobImmutable ==
    [][(active = 1 /\ active' = 1) => job' = job]_vars

C15_Witness ==
    /\ active = 1
    /\ pc = "report"
    /\ edits = 1
    /\ ui.input_paths # job.input_paths
    /\ ui.input_paths["BaseColor"] = NewPath("BaseColor")

\* C17: load_grayscale turns an image of any mode into an image of mode L
\* (one channel of 8 bits) of the target side, so that the value handed to
\* the packing of as and smdi lies in 0..255.
C17_GrayIs8Bit ==
    pix.stage \in {"gray", "as", "smdi"} =>
        /\ pix.out.mode = "L"
        /\ pix.out.side = pix.side
        /\ pix.out.px[1] \in 0..255

\* C18: for a normal map of mode RGB whose side is the target side, nohq is
\* (r, 255 - g, b) under OpenGL and (r, g, b) under DirectX, so that red and
\* blue are the same under both; packing the OpenGL result once more gives
\* the green of the source again.
C18_NormalConvention ==
    (pix.stage \in {"nohq", "nohq2"} /\ pix.src.mode = "RGB" /\ pix.src.side = pix.side) =>
        LET r == pix.src.px[1]
            g == pix.src.px[2]
            b == pix.src.px[3]
        IN  /\ pix.conv = "OpenGL" => pix.out.px = <<r, 255 - g, b>>
            /\ pix.conv = "DirectX" => pix.out.px = <<r, g, b>>
            /\ pix.out.side = pix.side
            /\ pix.stage = "nohq2" =>
                  /\ pix.out2.px[2] = g
                  /\ pix.out2.px[1] = r
                  /\ pix.out2.px[3] = b

C18_Witness ==
    /\ pix.stage = "nohq2"
    /\ pix.conv = "OpenGL"
    /\ pix.src.mode = "RGB"
    /\ pix.src.side = pix.side
    /\ pix.src.px = <<255, 1, 128>>
    /\ pix.out.px = <<255, 254, 128>>

\* C21: a cancellation requested after the last checkpoint is dropped: when
\* the request has been made and every external process of the run (the one
\* batch process, or the process of every PNG) has exited with zero, the
\* outcome is the success with the whole list of PNGs and the progress 100,
\* never "Cancelled".
C21_LateCancelDropped ==
    (/\ cancel
     /\ Ended
     /\ Len(exits) = (IF IsBatch(job) THEN 1 ELSE NumPngs)
     /\ Len(exits) > 0
     /\ \A k \in 1..Len(exits) : exits[k].code = 0)
    => /\ Succeeded
       /\ ~WasCancelled
       /\ done[1].png_paths = saved
       /\ Len(saved) = NumSel
       /\ progress[Len(progress)].value = 100

C21_Witness ==
    /\ cancel
    /\ Ended
    /\ IsBatch(job)
    /\ NumSel = 2
    /\ Len(exits) = 1
    /\ exits[1].code = 0
    /\ Succeeded
    /\ Len(dialogs) = 1

\* the case of C21 per file: the request made after the checkpoint of the last PNG
C21_PerFileCase ==
    /\ cancel
    /\ Ended
    /\ ~IsBatch(job)
    /\ NumSel = 2
    /\ Len(exits) = 2
    /\ Succeeded

OnlyColourAndNormal == \A i \in 1..NumSel : job.selections[i] \in {"co", "nohq"}
OpenError == \E i \in 1..Len(done) : done[i] = UnexpectedErrorDone("cannot open image")

\* C22: the inputs are opened per selected variant, and as and smdi each
\* open AO, Metallic and Roughness. A job that selects as alone fails on
\* opening, with no PNG saved, when Metallic or Roughness cannot be opened;
\* a job that selects only co and nohq never fails on opening an image when
\* AO, Metallic and Roughness cannot be opened and its own inputs can, and
\* every variant it has gone through is saved.
C22_LazyInputs ==
    /\ (job.selections = <<"as">> /\ {"Metallic", "Roughness"} \cap unreadable # {}) =>
          /\ saved = <<>>
          /\ written = {}
          /\ pc \in {"start", "pack", "finished"}
          /\ Ended => (Failed /\ OpenError)
    /\ (OnlyColourAndNormal /\ {"AO", "Metallic", "Roughness"} \subseteq unreadable
            /\ unreadable \cap {"BaseColor", "Normal"} = {}) =>
          /\ ~OpenError
          /\ (pc \notin {"start", "pack", "finished"}) => (Len(saved) = NumSel)
          /\ Succeeded => (done[1].png_paths = saved /\ Len(saved) = NumSel)

C22_Witness ==
    /\ job.selections = <<"co", "nohq">>
    /\ unreadable = {"AO", "Metallic", "Roughness"}
    /\ Ended
    /\ Succeeded
    /\ done[1].png_paths = saved
    /\ Len(saved) = 2

\* the case of C22 for as alone: only Roughness cannot be opened
C22_AsCase ==
    /\ job.selections = <<"as">>
    /\ unreadable = {"Roughness"}
    /\ Ended
    /\ OpenError

====
